---------------------------- MODULE Spec2Model ----------------------------
(***************************************************************************)
(* Model of the fireshare video transcoding pipeline:                      *)
(*   util.py  source validator, timeout estimator, encoder catalog,        *)
(*            transcode executor (transcode_video_quality)                 *)
(*   cli.py   batch orchestrator (transcode_videos), corrupt registry      *)
(***************************************************************************)
EXTENDS Integers, Sequences, FiniteSets, TLC

(***************************************************************************)
(* Optional values (Python None): the empty set is None, {x} is x.         *)
(***************************************************************************)
None == {}
Some(x) == {x}
The(o) == CHOOSE x \in o : TRUE

Min(a, b) == IF a <= b THEN a ELSE b
Max(a, b) == IF a >= b THEN a ELSE b

\* Index set of the elements of a sequence, and its range
Range(s) == {s[i] : i \in 1..Len(s)}

(***************************************************************************)
(* util.py 15-48: the corruption tables, verbatim.                         *)
(***************************************************************************)
VIDEO_CORRUPTION_INDICATORS ==
    << "Corrupt frame detected",
       "No sequence header",
       "Error submitting packet to decoder",
       "Invalid data found when processing input",
       "Decode error rate",
       "moov atom not found",
       "Invalid NAL unit size",
       "non-existing PPS",
       "Could not find codec parameters" >>

AV1_FALSE_POSITIVE_INDICATORS ==
    { "corrupt frame detected",
      "no sequence header",
      "error submitting packet to decoder",
      "decode error rate",
      "invalid nal unit size",
      "non-existing pps" }

AV1_CODEC_NAMES == {"av1", "libaom-av1", "libsvtav1", "av1_nvenc", "av1_qsv"}

(***************************************************************************)
(* str.lower() on the strings the model uses.  ffmpeg's stderr is a        *)
(* sequence of fragments; a fragment is an indicator in the table's        *)
(* spelling, in upper case, in lower case, or unrelated text.              *)
(***************************************************************************)
LowerTable ==
    << <<"Corrupt frame detected", "CORRUPT FRAME DETECTED", "corrupt frame detected">>,
       <<"No sequence header", "NO SEQUENCE HEADER", "no sequence header">>,
       <<"Error submitting packet to decoder", "ERROR SUBMITTING PACKET TO DECODER",
         "error submitting packet to decoder">>,
       <<"Invalid data found when processing input", "INVALID DATA FOUND WHEN PROCESSING INPUT",
         "invalid data found when processing input">>,
       <<"Decode error rate", "DECODE ERROR RATE", "decode error rate">>,
       <<"moov atom not found", "MOOV ATOM NOT FOUND", "moov atom not found">>,
       <<"Invalid NAL unit size", "INVALID NAL UNIT SIZE", "invalid nal unit size">>,
       <<"non-existing PPS", "NON-EXISTING PPS", "non-existing pps">>,
       <<"Could not find codec parameters", "COULD NOT FIND CODEC PARAMETERS",
         "could not find codec parameters">>,
       <<"Conversion failed!", "CONVERSION FAILED!", "conversion failed!">>,
       <<"AV1", "AV1", "av1">>,
       <<"H264", "H264", "h264">> >>

lower(s) ==
    IF \E i \in 1..Len(LowerTable) : s = LowerTable[i][1] \/ s = LowerTable[i][2]
    THEN LowerTable[CHOOSE i \in 1..Len(LowerTable) :
                        s = LowerTable[i][1] \/ s = LowerTable[i][2]][3]
    ELSE s

\* `needle in haystack` for a lower-cased stderr (sequence of fragments)
Contains(haystack, needle) == \E i \in 1..Len(haystack) : haystack[i] = needle

LowerAll(stderr) == [i \in 1..Len(stderr) |-> lower(stderr[i])]

(***************************************************************************)
(* util.py 174-303: validate_video_file.  The argument is what the two     *)
(* subprocesses and shutil.which deliver:                                  *)
(*   which_ffprobe, which_ffmpeg : BOOLEAN                                 *)
(*   probe  : [kind, returncode, stderr, stdout, codec_name]               *)
(*   decode : [kind, returncode, stderr]                                   *)
(* kind is "exit" when sp.run returned, else the exception it raised.      *)
(* The result is <<is_valid, reason>>, reason being None or the message    *)
(* as <<fixed text, interpolated part>>, the interpolated part a sequence  *)
(* of strings (stderr[:200] keeps every fragment of the short stderr       *)
(* values the model draws).                                                *)
(***************************************************************************)
ExceptionReason(kind) ==
    CASE kind = "TimeoutExpired"    -> Some(<<"Validation timed out after ", <<"timeout">> >>)
      [] kind = "FileNotFoundError" -> Some(<<"Video file not found", <<>> >>)
      [] OTHER                      -> Some(<<"Validation error: ", <<kind>> >>)

\* the first indicator of the table, in table order, found in stderr
FirstIndicator(stderr_lower) ==
    LET hits == {i \in 1..Len(VIDEO_CORRUPTION_INDICATORS) :
                    Contains(stderr_lower, lower(VIDEO_CORRUPTION_INDICATORS[i]))}
    IN  IF hits = {} THEN None
        ELSE Some(VIDEO_CORRUPTION_INDICATORS[CHOOSE i \in hits : \A j \in hits : i <= j])

\* an AV1 validator for which every indicator of the table is a real error
AnyIndicatorAV1(stderr_lower) == FirstIndicator(stderr_lower)

FirstRealErrorAV1(stderr_lower) ==
    LET hits == {i \in 1..Len(VIDEO_CORRUPTION_INDICATORS) :
                    /\ Contains(stderr_lower, lower(VIDEO_CORRUPTION_INDICATORS[i]))
                    /\ lower(VIDEO_CORRUPTION_INDICATORS[i]) \notin AV1_FALSE_POSITIVE_INDICATORS}
    IN  IF hits = {} THEN None
        ELSE Some(VIDEO_CORRUPTION_INDICATORS[CHOOSE i \in hits : \A j \in hits : i <= j])

FoundFalsePositiveAV1(stderr_lower) ==
    \E i \in 1..Len(VIDEO_CORRUPTION_INDICATORS) :
        /\ Contains(stderr_lower, lower(VIDEO_CORRUPTION_INDICATORS[i]))
        /\ lower(VIDEO_CORRUPTION_INDICATORS[i]) \in AV1_FALSE_POSITIVE_INDICATORS

\* util.py 253-280
ValidateDecodeAV1(decode) ==
    LET stderr_lower == LowerAll(decode.stderr)
        real == FirstRealErrorAV1(stderr_lower)
    IN  IF real # None
        THEN <<FALSE, Some(<<"Video file appears to be corrupt: ", <<The(real)>> >>)>>
        ELSE IF FoundFalsePositiveAV1(stderr_lower)
        THEN <<TRUE, None>>
        ELSE IF decode.returncode # 0
        THEN IF decode.stderr # <<>>
             THEN <<FALSE, Some(<<"Decode test failed: ", decode.stderr>>)>>
             ELSE <<FALSE, Some(<<"Decode test failed with no error message", <<>> >>)>>
        ELSE <<TRUE, None>>

\* a strict validator that trusts exit code 0 whatever stderr says
ValidateDecodeExitCodeOnly(decode) ==
    LET hit == FirstIndicator(LowerAll(decode.stderr))
    IN  IF decode.returncode = 0 THEN <<TRUE, None>>
        ELSE IF hit # None
        THEN <<FALSE, Some(<<"Video file appears to be corrupt: ", <<The(hit)>> >>)>>
        ELSE <<FALSE, Some(<<"Decode test failed: ",
                             IF decode.stderr # <<>> THEN decode.stderr
                             ELSE <<"Unknown error">> >>)>>

\* util.py 281-296
ValidateDecodeStrict(decode) ==
    LET stderr_lower == LowerAll(decode.stderr)
        hit == FirstIndicator(stderr_lower)
    IN  IF decode.returncode # 0
        THEN IF hit # None
             THEN <<FALSE, Some(<<"Video file appears to be corrupt: ", <<The(hit)>> >>)>>
             ELSE <<FALSE, Some(<<"Decode test failed: ",
                                  IF decode.stderr # <<>> THEN decode.stderr
                                  ELSE <<"Unknown error">> >>)>>
        ELSE IF hit # None
             THEN <<FALSE, Some(<<"Video file appears to be corrupt: ", <<The(hit)>> >>)>>
             ELSE <<TRUE, None>>

validate_video_file(inp) ==
    IF ~inp.which_ffprobe
    THEN <<FALSE, Some(<<"ffprobe command not found - ensure ffmpeg is installed", <<>> >>)>>
    ELSE IF ~inp.which_ffmpeg
    THEN <<FALSE, Some(<<"ffmpeg command not found - ensure ffmpeg is installed", <<>> >>)>>
    ELSE IF inp.probe.kind # "exit"
    THEN <<FALSE, ExceptionReason(inp.probe.kind)>>
    ELSE IF inp.probe.returncode # 0
    THEN <<FALSE, Some(<<"ffprobe failed: ",
                         IF inp.probe.stderr # "" THEN <<inp.probe.stderr>>
                         ELSE <<"Unknown error reading video metadata">> >>)>>
    ELSE IF inp.probe.stdout = "notjson"
    THEN <<FALSE, Some(<<"Failed to parse video metadata", <<>> >>)>>
    ELSE IF inp.probe.stdout = "nostreams"
    THEN <<FALSE, Some(<<"No video streams found in file", <<>> >>)>>
    ELSE IF inp.decode.kind # "exit"
    THEN <<FALSE, ExceptionReason(inp.decode.kind)>>
    ELSE IF lower(inp.probe.codec_name) \in AV1_CODEC_NAMES
    THEN ValidateDecodeAV1(inp.decode)
    ELSE ValidateDecodeStrict(inp.decode)

(***************************************************************************)
(* util.py 306-334: calculate_transcode_timeout.  get_video_duration       *)
(* returns None or a float; a duration is held in milliseconds, so         *)
(* int(duration * 60) is (ms * 60) \div 1000.                              *)
(***************************************************************************)
MinTranscodeTimeout == 600
MaxTranscodeTimeout == 28800
DefaultBaseTimeout == 7200

\* Python truthiness of `duration` (None and 0.0 are falsy)
Truthy(duration) == duration # None /\ The(duration) # 0

calculate_transcode_timeout(duration, base_timeout) ==
    IF Truthy(duration)
    THEN Min(Max((The(duration) * 60) \div 1000, MinTranscodeTimeout), MaxTranscodeTimeout)
    ELSE base_timeout

(***************************************************************************)
(* util.py 473-524: the encoder catalog.                                   *)
(***************************************************************************)
h264_cpu ==
    [name |-> "H.264 CPU", video_codec |-> "libx264", audio_codec |-> "aac",
     audio_bitrate |-> "128k", extra_args |-> <<"-preset", "fast", "-crf", "23">>]
av1_cpu ==
    [name |-> "AV1 CPU", video_codec |-> "libaom-av1", audio_codec |-> "libopus",
     audio_bitrate |-> "96k", extra_args |-> <<"-cpu-used", "4", "-crf", "30", "-b:v", "0">>]
h264_nvenc ==
    [name |-> "H.264 NVENC", video_codec |-> "h264_nvenc", audio_codec |-> "aac",
     audio_bitrate |-> "128k", extra_args |-> <<"-preset", "p4", "-cq:v", "23">>]
av1_nvenc ==
    [name |-> "AV1 NVENC", video_codec |-> "av1_nvenc", audio_codec |-> "libopus",
     audio_bitrate |-> "96k", extra_args |-> <<"-preset", "p4", "-cq:v", "30">>]

Encoders == {h264_cpu, av1_cpu, h264_nvenc, av1_nvenc}
NvencEncoders == {e \in Encoders : e.video_codec \in {"h264_nvenc", "av1_nvenc"}}

\* a catalog that offers the NVENC encoders whether or not GPU is enabled
CandidatesIgnoringGpu(use_gpu, encoder_preference) ==
    IF encoder_preference = "h264" THEN <<h264_nvenc, h264_cpu>>
    ELSE IF encoder_preference = "av1" THEN <<av1_nvenc, av1_cpu>>
    ELSE <<h264_nvenc, av1_nvenc, h264_cpu, av1_cpu>>

\* a catalog in the order of the docstring of transcode_video_quality
CandidatesAV1First(use_gpu, encoder_preference) ==
    IF encoder_preference = "h264"
    THEN IF use_gpu THEN <<h264_nvenc, h264_cpu>> ELSE <<h264_cpu>>
    ELSE IF encoder_preference = "av1"
    THEN IF use_gpu THEN <<av1_nvenc, av1_cpu>> ELSE <<av1_cpu>>
    ELSE IF use_gpu THEN <<av1_nvenc, h264_nvenc, av1_cpu, h264_cpu>>
         ELSE <<av1_cpu, h264_cpu>>

get_encoder_candidates(use_gpu, encoder_preference) ==
    IF encoder_preference = "h264"
    THEN IF use_gpu THEN <<h264_nvenc, h264_cpu>> ELSE <<h264_cpu>>
    ELSE IF encoder_preference = "av1"
    THEN IF use_gpu THEN <<av1_nvenc, av1_cpu>> ELSE <<av1_cpu>>
    ELSE IF use_gpu THEN <<h264_nvenc, av1_nvenc, h264_cpu, av1_cpu>>
         ELSE <<h264_cpu, av1_cpu>>


(***************************************************************************)
(* Bounds and input sets.                                                  *)
(***************************************************************************)
\* longest stderr (in fragments) the decode test of a direct validation call delivers
MaxStderr == 2

\* all sequences over S of length at most n
RECURSIVE SeqsUpTo(_, _)
SeqsUpTo(S, n) ==
    IF n = 0 THEN {<<>>}
    ELSE LET shorter == SeqsUpTo(S, n - 1)
         IN  shorter \cup {Append(q, x) : q \in {r \in shorter : Len(r) = n - 1}, x \in S}

\* stderr fragments: every indicator in the table's spelling and in upper
\* case, and a line that is no indicator
Fragments ==
    {LowerTable[i][1] : i \in 1..10} \cup
    {LowerTable[i][2] : i \in 1..Len(VIDEO_CORRUPTION_INDICATORS)}

CodecNames == {"h264", "hevc", "av1", "AV1", "libsvtav1"}
ExitCodes == {0, 1}
SubprocessExceptions == {"TimeoutExpired", "FileNotFoundError", "OSError"}

GoodProbe(codec) ==
    [kind |-> "exit", returncode |-> 0, stderr |-> "", stdout |-> "streams", codec_name |-> codec]
GoodDecode == [kind |-> "exit", returncode |-> 0, stderr |-> <<>>]

ProbeOutcomes ==
    {[kind |-> k, returncode |-> 0, stderr |-> "", stdout |-> "", codec_name |-> ""] :
        k \in SubprocessExceptions}
    \cup {[kind |-> "exit", returncode |-> 1, stderr |-> e, stdout |-> "", codec_name |-> ""] :
        e \in {"", "No such file or directory"}}
    \cup {[kind |-> "exit", returncode |-> 0, stderr |-> "", stdout |-> o, codec_name |-> ""] :
        o \in {"notjson", "nostreams"}}

DecodeOutcomes(n) ==
    {[kind |-> k, returncode |-> 0, stderr |-> <<>>] : k \in SubprocessExceptions}
    \cup {[kind |-> "exit", returncode |-> rc, stderr |-> e] :
            rc \in ExitCodes, e \in SeqsUpTo(Fragments, n)}

\* what shutil.which and the two subprocesses can deliver to one validation
ValidateInputs(n) ==
    {[which_ffprobe |-> a, which_ffmpeg |-> b, probe |-> GoodProbe("h264"), decode |-> GoodDecode] :
        a \in BOOLEAN, b \in BOOLEAN}
    \cup {[which_ffprobe |-> TRUE, which_ffmpeg |-> TRUE, probe |-> p, decode |-> GoodDecode] :
        p \in ProbeOutcomes}
    \cup {[which_ffprobe |-> TRUE, which_ffmpeg |-> TRUE, probe |-> GoodProbe(c), decode |-> d] :
        c \in CodecNames, d \in DecodeOutcomes(n)}

\* durations (milliseconds) get_video_duration can return, besides None
DurationsMs == {0, 1, 5000, 9999, 10000, 10017, 479999, 480000, 480017, 3600000}
Durations == {None} \cup {Some(d) : d \in DurationsMs}
BaseTimeouts == {30, 7200, 86400}

Preferences == {"auto", "h264", "av1"}

(***************************************************************************)
(* State.                                                                  *)
(***************************************************************************)
VARIABLES
    call,                   \* the last direct call of a pure function: [fn, done, args, ret]
    working_encoder_cache,  \* util.py 350: mode -> None or the EncoderSpec that worked
    job,                    \* the running call of transcode_video_quality (its frame)
    worked,                 \* history: mode -> the encoder that exited 0 in the last job of
                            \* that mode which ran encoders, None if that job found none
    bpc,                    \* where the transcode_videos process is
    cfg,                    \* its options and the settings it read (cli.py 589-631)
    registry,               \* corrupt_videos.json: the list of corrupt video ids
    vinfos,                 \* the work list (cli.py 634-640)
    registry0,              \* history: the registry as the batch read it at its start
    data_path,              \* cli.py 593: _transcode_state['data_path'], None until set
    cancelled_at,           \* history: None, or where the process was when SIGTERM came
    visited,                \* history: the videos the loop has come to, in order
    idx,                    \* enumerate(vinfos, 1): index of the current video
    res_i,                      \* position in `for height in resolutions`
    original_height,        \* cli.py 665
    vi_height,              \* vi.height of the current row: None or the height
    outs,                   \* heights h whose <video_id>-<h>p.mp4 exists, for the current video
    video_is_corrupt,       \* cli.py 666
    has,                    \* heights h whose has_<h>p this run set on the current vi
    status,                 \* transcoding_status.json: None or the record
    handled,                \* history: the job result the batch handled in its last step
    lockfile,               \* util.py 50-74: whether <data>/fireshare.lock exists
    importers,              \* the bulk_import processes (cli.py 704-751)
    registry_file,          \* corrupt_videos.json as concurrent processes see it
    writers                 \* the processes updating corrupt_videos.json

batchVars == <<bpc, cfg, data_path, cancelled_at, visited, registry, vinfos, registry0, idx,
               res_i, original_height, vi_height,
               outs, video_is_corrupt, has,
               status, handled>>
osVars == <<lockfile, importers, registry_file, writers>>
vars == <<call, working_encoder_cache, job, worked, batchVars, osVars>>

Modes == {"gpu", "cpu"}
NoCall == [fn |-> "none", done |-> FALSE]
NoJob == [pc |-> "idle"]
NoConfig == [enable_transcoding |-> FALSE]

\* no concurrent processes are part of the run
OsAbsent ==
    /\ lockfile = FALSE
    /\ importers = <<>>
    /\ registry_file = [kind |-> "missing"]
    /\ writers = <<>>

\* the transcode_videos process is not part of the run
BatchAbsent ==
    /\ bpc = "absent"
    /\ cfg = NoConfig
    /\ registry = <<>>
    /\ vinfos = <<>>
    /\ registry0 = <<>>
    /\ data_path = None
    /\ cancelled_at = None
    /\ visited = <<>>
    /\ idx = 0
    /\ res_i = 0
    /\ original_height = 0
    /\ vi_height = None
    /\ outs = {}
    /\ video_is_corrupt = FALSE
    /\ has = {}
    /\ status = None
    /\ handled = None

(***************************************************************************)
(* Direct calls of the exposed pure functions (spec section 6): the call   *)
(* is drawn with its arguments, the action runs the function.              *)
(***************************************************************************)
PendingCalls ==
    {[fn |-> "validate_video_file", done |-> FALSE, args |-> inp] :
        inp \in ValidateInputs(MaxStderr)}
    \cup {[fn |-> "calculate_transcode_timeout", done |-> FALSE,
           args |-> [duration |-> d, base_timeout |-> b]] :
        d \in Durations, b \in BaseTimeouts}
    \cup {[fn |-> "_get_encoder_candidates", done |-> FALSE,
           args |-> [use_gpu |-> g, encoder_preference |-> p]] :
        g \in BOOLEAN, p \in Preferences}

Pending(fn) == call.fn = fn /\ ~call.done
Returned(fn) == call.fn = fn /\ call.done

CallValidate ==
    /\ Pending("validate_video_file")
    /\ call' = [call EXCEPT !.done = TRUE] @@ [ret |-> validate_video_file(call.args)]
    /\ UNCHANGED <<working_encoder_cache, job, worked, batchVars, osVars>>

CallTimeout ==
    /\ Pending("calculate_transcode_timeout")
    /\ call' = [call EXCEPT !.done = TRUE] @@
               [ret |-> calculate_transcode_timeout(call.args.duration, call.args.base_timeout)]
    /\ UNCHANGED <<working_encoder_cache, job, worked, batchVars, osVars>>

CallCandidates ==
    /\ Pending("_get_encoder_candidates")
    /\ call' = [call EXCEPT !.done = TRUE] @@
               [ret |-> get_encoder_candidates(call.args.use_gpu, call.args.encoder_preference)]
    /\ UNCHANGED <<working_encoder_cache, job, worked, batchVars, osVars>>

UtilInit ==
    /\ call \in PendingCalls
    /\ working_encoder_cache = [m \in Modes |-> None]
    /\ job = NoJob
    /\ worked = [m \in Modes |-> None]
    /\ BatchAbsent
    /\ OsAbsent

UtilNext == CallValidate \/ CallTimeout \/ CallCandidates

UtilSpec == UtilInit /\ [][UtilNext]_vars

(***************************************************************************)
(* util.py 545-782: transcode_video_quality, one action per step.          *)
(*                                                                         *)
(* The frame `job` holds the arguments, the locals and, as out_file, the   *)
(* state of the file at out_path: "absent", "partial" (an encoder that     *)
(* failed wrote to it) or "complete".  invoked is the history of the       *)
(* encoder invocations of this job; file0 is out_path and cache0 the       *)
(* encoder cache when the job began; nvenc is the last answer of the       *)
(* NVENC availability probe, None while the job has not asked; duration is *)
(* what get_video_duration returned (None: not determined).                *)
(***************************************************************************)
\* what the validation of a job's source is drawn from: a tool is missing,
\* the decode test times out, or it exits with one of three stderr values
JobValidateInputs ==
    {[which_ffprobe |-> a, which_ffmpeg |-> TRUE, probe |-> GoodProbe("h264"),
      decode |-> GoodDecode] : a \in BOOLEAN}
    \cup {[which_ffprobe |-> TRUE, which_ffmpeg |-> TRUE, probe |-> GoodProbe("h264"),
           decode |-> [kind |-> "TimeoutExpired", returncode |-> 0, stderr |-> <<>>]]}
    \cup {[which_ffprobe |-> TRUE, which_ffmpeg |-> TRUE, probe |-> GoodProbe("h264"),
           decode |-> [kind |-> "exit", returncode |-> rc, stderr |-> e]] :
            rc \in ExitCodes,
            e \in {<<>>, <<"moov atom not found">>, <<"Conversion failed!">>}}

\* durations (milliseconds) the probe of a job's source can return
JobDurations == {None, Some(5000)}

\* how one run of ffmpeg (run_ffmpeg_with_progress) can end: exit 0, a
\* non-zero exit, TimeoutExpired, or another exception of sp.run; wrote
\* says whether ffmpeg wrote to out_path before it ended
FfmpegOutcomes ==
    {[kind |-> "ok", wrote |-> TRUE], [kind |-> "exception", wrote |-> FALSE]}
    \cup {[kind |-> kd, wrote |-> w] : kd \in {"nonzero", "timeout"}, w \in BOOLEAN}

AfterRun(file, o) ==
    IF o.kind = "ok" THEN "complete" ELSE IF o.wrote THEN "partial" ELSE file

\* `if os.path.exists(out_path_str): os.remove(out_path_str)`
RemoveIfExists(file) == "absent"

NewJob(video, height, use_gpu, timeout_arg, encoder_preference, file0) ==
    [pc |-> "validate", video |-> video, height |-> height, use_gpu |-> use_gpu,
     timeout_arg |-> timeout_arg, encoder_preference |-> encoder_preference,
     valid |-> None, timeout_seconds |-> None, invoked |-> <<>>, cand |-> 1,
     ret |-> None, out_file |-> file0, file0 |-> file0,
     prev_worked |-> worked[IF use_gpu THEN "gpu" ELSE "cpu"],
     nvenc |-> None, cache0 |-> working_encoder_cache, duration |-> None]

\* util.py 594
mode == IF job.use_gpu THEN "gpu" ELSE "cpu"

\* the fixed text of a validation result's reason ("" for None)
ReasonText(r) == IF r[2] = None THEN "" ELSE The(r[2])[1]

\* a job that goes on to the encoders whatever the validation said
AfterValidationContinue(j, r) ==
    [j EXCEPT !.valid = Some(<<r[1], ReasonText(r)>>), !.pc = "timeout"]

\* util.py 574-580
AfterValidation(j, r) ==
    IF ~r[1]
    THEN [j EXCEPT !.valid = Some(<<r[1], ReasonText(r)>>),
                   !.ret = Some(<<FALSE, Some("corruption")>>), !.pc = "returned"]
    ELSE [j EXCEPT !.valid = Some(<<r[1], ReasonText(r)>>), !.pc = "timeout"]

TQ_Validate ==
    /\ job.pc = "validate"
    /\ \E inp \in JobValidateInputs :
          job' = AfterValidation(job, validate_video_file(inp))
    /\ UNCHANGED <<osVars, call, working_encoder_cache, worked, batchVars>>

\* util.py 583-597
TQ_Timeout ==
    /\ job.pc = "timeout"
    /\ \E duration \in JobDurations :
          job' = [job EXCEPT
                    !.duration = duration,
                    !.timeout_seconds =
                        IF job.timeout_arg = None
                        THEN Some(calculate_transcode_timeout(duration, DefaultBaseTimeout))
                        ELSE job.timeout_arg,
                    !.pc = IF working_encoder_cache[mode] # None THEN "cached" ELSE "detect"]
    /\ UNCHANGED <<osVars, call, working_encoder_cache, worked, batchVars>>

Invocation(phase, encoder, o) == [phase |-> phase, encoder |-> encoder, ok |-> o.kind = "ok"]

\* util.py 613-633: what the three failure branches of the cached attempt
\* leave at out_path
CachedFailureFile(file, o) ==
    IF o.kind = "timeout" THEN RemoveIfExists(AfterRun(file, o)) ELSE AfterRun(file, o)

\* a failed cache hit that stays in the cache
CacheKept(cache, m) == cache

\* util.py 617, 621, 633
CacheAfterCachedFailure(cache, m) == [cache EXCEPT ![m] = None]

\* util.py 597-633
TQ_Cached ==
    /\ job.pc = "cached"
    /\ LET encoder == The(working_encoder_cache[mode]) IN
       \E o \in FfmpegOutcomes :
          IF o.kind = "ok"
          THEN /\ job' = [job EXCEPT !.invoked = Append(@, Invocation("cached", encoder, o)),
                                     !.out_file = AfterRun(@, o),
                                     !.ret = Some(<<TRUE, None>>), !.pc = "returned"]
               /\ worked' = [worked EXCEPT ![mode] = Some(encoder)]
               /\ UNCHANGED working_encoder_cache
          ELSE /\ job' = [job EXCEPT !.invoked = Append(@, Invocation("cached", encoder, o)),
                                     !.out_file = CachedFailureFile(@, o),
                                     !.pc = "detect"]
               /\ working_encoder_cache' = CacheAfterCachedFailure(working_encoder_cache, mode)
               /\ UNCHANGED worked
    /\ UNCHANGED <<osVars, call, batchVars>>

\* the candidate list walked from its last entry to its first
EncodersReversed ==
    LET c == get_encoder_candidates(job.use_gpu, job.encoder_preference)
    IN  [i \in 1..Len(c) |-> c[Len(c) + 1 - i]]

\* util.py 727: the candidate list is fetched for (use_gpu, encoder_preference)
encoders == get_encoder_candidates(job.use_gpu, job.encoder_preference)

\* what the availability probe and the diagnostics of one job can find:
\* check_nvenc_available() (util.py 418-460), nvidia-smi and the library
\* search of diagnose_nvenc_setup (363-416), whether the library directory
\* is already on LD_LIBRARY_PATH (651), and the probe after the patch (659).
\* The answer of the probe is drawn for each job; the memo
\* _nvenc_availability_cache only narrows the answers of later jobs.
NvencProbes ==
    [available : BOOLEAN, nvidia_smi_available : BOOLEAN, libnvidia_encode_found : BOOLEAN,
     on_ld_library_path : BOOLEAN, available_after_patch : BOOLEAN]

\* util.py 637-659: whether LD_LIBRARY_PATH is patched and the probe repeated
Rechecked(probe) ==
    /\ ~probe.available
    /\ probe.nvidia_smi_available
    /\ probe.libnvidia_encode_found
    /\ ~probe.on_ld_library_path

\* the last answer the job got from check_nvenc_available
NvencAvailable(probe) ==
    IF Rechecked(probe) THEN probe.available_after_patch ELSE probe.available

\* a job that gives up the GPU when the probe is negative
UseGpuDowngraded(use_gpu, probe) == use_gpu /\ NvencAvailable(probe)

\* util.py 635-723: every branch of the diagnostics only logs ("Don't set
\* use_gpu to False, let it continue", "Will attempt GPU transcoding anyway")
UseGpuAfterDiagnostics(use_gpu, probe) == use_gpu

\* util.py 635-727
TQ_Detect ==
    /\ job.pc = "detect"
    /\ IF job.use_gpu
       THEN \E probe \in NvencProbes :
               job' = [job EXCEPT !.nvenc = Some(NvencAvailable(probe)),
                                  !.use_gpu = UseGpuAfterDiagnostics(@, probe),
                                  !.pc = "candidates", !.cand = 1]
       ELSE job' = [job EXCEPT !.pc = "candidates", !.cand = 1]
    /\ UNCHANGED <<osVars, call, working_encoder_cache, worked, batchVars>>

\* a failed candidate whose output is left where ffmpeg wrote it
CandidateOutputLeft(file, o) == AfterRun(file, o)

\* util.py 743-772: each of the three failure branches removes out_path
CandidateFailureFile(file, o) == RemoveIfExists(AfterRun(file, o))

\* a successful candidate that is not remembered
CacheNotStored(cache, m, encoder) == cache

\* a successful candidate that is remembered for both modes
CacheStoredForBothModes(cache, m, encoder) == [x \in Modes |-> Some(encoder)]

\* util.py 739
CacheAfterSuccess(cache, m, encoder) == [cache EXCEPT ![m] = Some(encoder)]

\* util.py 726-772: one iteration of `for encoder in encoders`
TQ_Candidate ==
    /\ job.pc = "candidates"
    /\ job.cand <= Len(encoders)
    /\ LET encoder == encoders[job.cand] IN
       \E o \in FfmpegOutcomes :
          IF o.kind = "ok"
          THEN /\ job' = [job EXCEPT !.invoked = Append(@, Invocation("candidate", encoder, o)),
                                     !.out_file = AfterRun(@, o),
                                     !.ret = Some(<<TRUE, None>>), !.pc = "returned"]
               /\ working_encoder_cache' = CacheAfterSuccess(working_encoder_cache, mode, encoder)
               /\ worked' = [worked EXCEPT ![mode] = Some(encoder)]
          ELSE /\ job' = [job EXCEPT !.invoked = Append(@, Invocation("candidate", encoder, o)),
                                     !.out_file = CandidateFailureFile(@, o),
                                     !.cand = @ + 1]
               /\ UNCHANGED <<working_encoder_cache, worked>>
    /\ UNCHANGED <<osVars, call, batchVars>>

\* util.py 774-782
TQ_AllFailed ==
    /\ job.pc = "candidates"
    /\ job.cand > Len(encoders)
    /\ job' = [job EXCEPT !.ret = Some(<<FALSE, Some("encoders")>>), !.pc = "returned"]
    /\ worked' = [worked EXCEPT ![mode] = None]
    /\ UNCHANGED <<osVars, call, working_encoder_cache, batchVars>>

TQ_Step == TQ_Validate \/ TQ_Timeout \/ TQ_Cached \/ TQ_Detect \/ TQ_Candidate \/ TQ_AllFailed

(***************************************************************************)
(* A process that calls transcode_video_quality directly, any arguments,   *)
(* one call after the other (spec section 6: the function is exposed to    *)
(* the orchestration layer or an external scheduler).                      *)
(***************************************************************************)
TimeoutArgs == {None, Some(900)}

ExecCall ==
    /\ job.pc = "idle"
    /\ \E g \in BOOLEAN, p \in Preferences, t \in TimeoutArgs, f \in {"absent", "complete"} :
          job' = NewJob(1, 720, g, t, p, f)
    /\ UNCHANGED <<osVars, call, working_encoder_cache, worked, batchVars>>

ExecReturn ==
    /\ job.pc = "returned"
    /\ job' = NoJob
    /\ UNCHANGED <<osVars, call, working_encoder_cache, worked, batchVars>>

ExecInit ==
    /\ call = NoCall
    /\ working_encoder_cache = [m \in Modes |-> None]
    /\ job = NoJob
    /\ worked = [m \in Modes |-> None]
    /\ BatchAbsent
    /\ OsAbsent

ExecNext == ExecCall \/ TQ_Step \/ ExecReturn

ExecSpec == ExecInit /\ [][ExecNext]_vars

(***************************************************************************)
(* cli.py 75-117: the corrupt-video registry (a JSON list).                *)
(***************************************************************************)
is_video_corrupt(corrupt_list, video_id) == video_id \in Range(corrupt_list)

mark_video_corrupt(corrupt_list, video_id) ==
    IF video_id \notin Range(corrupt_list) THEN Append(corrupt_list, video_id) ELSE corrupt_list

\* list.remove: drops the first occurrence
RECURSIVE RemoveFirst(_, _)
RemoveFirst(list, x) ==
    IF list = <<>> THEN <<>>
    ELSE IF Head(list) = x THEN Tail(list)
    ELSE <<Head(list)>> \o RemoveFirst(Tail(list), x)

clear_video_corrupt(corrupt_list, video_id) ==
    IF video_id \in Range(corrupt_list) THEN RemoveFirst(corrupt_list, video_id) ELSE corrupt_list

(***************************************************************************)
(* cli.py 585-702: transcode_videos, the batch.                            *)
(***************************************************************************)
\* number of videos in the database
NumVideos == 2
Videos == 1..NumVideos
AllVideos == [i \in 1..NumVideos |-> i]

\* vi.height of a video row (None when never probed)
VideoHeights == {None, Some(1080), Some(2160)}

\* cli.py 625-631
Resolutions(enable_1080p, enable_720p, enable_480p) ==
    (IF enable_1080p THEN <<1080>> ELSE <<>>) \o
    (IF enable_720p THEN <<720>> ELSE <<>>) \o
    (IF enable_480p THEN <<480>> ELSE <<>>)

\* the settings of config.json a run is drawn with
ResolutionSettings == {<<TRUE, TRUE, TRUE>>, <<TRUE, FALSE, TRUE>>}
EncoderSettings == {<<FALSE, "auto">>, <<FALSE, "av1">>, <<TRUE, "h264">>}

\* __init__.py 117: TRANSCODE_TIMEOUT, its default or a value of the
\* environment
ConfiguredTimeouts == {DefaultBaseTimeout, 1800}

\* the options and settings of a run; a TRANSCODE_TIMEOUT other than the
\* default is drawn with one setting of the other options
BatchConfigs ==
    {[enable_transcoding |-> FALSE]}
    \cup {[enable_transcoding |-> TRUE, regenerate |-> r, video |-> v, include_corrupt |-> c,
           use_gpu |-> e[1], encoder_preference |-> e[2],
           resolutions |-> Resolutions(s[1], s[2], s[3]),
           base_timeout |-> DefaultBaseTimeout] :
            r \in BOOLEAN, v \in {None} \cup {Some(x) : x \in Videos}, c \in BOOLEAN,
            e \in EncoderSettings, s \in ResolutionSettings}
    \cup {[enable_transcoding |-> TRUE, regenerate |-> FALSE, video |-> None,
           include_corrupt |-> FALSE, use_gpu |-> FALSE, encoder_preference |-> "auto",
           resolutions |-> Resolutions(TRUE, FALSE, TRUE),
           base_timeout |-> t] : t \in ConfiguredTimeouts}

\* cli.py 680-682: the timeout argument of the batch's call is None,
\* whatever base_timeout was read at 612
TimeoutArgument(base_timeout) == None

\* corrupt_videos.json before the run: a list without duplicates
RECURSIVE AscendingList(_)
AscendingList(S) ==
    IF S = {} THEN <<>>
    ELSE LET m == CHOOSE x \in S : \A y \in S : x <= y
         IN  <<m>> \o AscendingList(S \ {m})
RegistryLists == {AscendingList(S) : S \in SUBSET Videos}

\* a status record that always reports the first write
WriteStatusZero(current, total, current_video) ==
    Some([is_running |-> TRUE, current |-> 0, total |-> total, current_video |-> None])

\* util.py 80-104 (the pid field is left out)
write_transcoding_status(current, total, current_video) ==
    Some([is_running |-> TRUE, current |-> current, total |-> total,
          current_video |-> current_video])

\* a work list that keeps the videos of the registry
WorkListUnfiltered(c, corrupt_list) ==
    IF c.video # None THEN <<The(c.video)>> ELSE AllVideos

\* a status record that is left in place
StatusLeft(record) == record

\* util.py 124-133: the status file is removed if it exists
clear_transcoding_status(record) == None

\* cli.py 634-640
WorkList(c, corrupt_list) ==
    LET queried == IF c.video # None THEN <<The(c.video)>> ELSE AllVideos
        NotCorrupt(v) == v \notin Range(corrupt_list)
    IN  IF ~c.include_corrupt /\ c.video = None
        THEN SelectSeq(queried, NotCorrupt)
        ELSE queried

\* cli.py 665: `vi.height or 0`
HeightOrZero(height) == IF height = None \/ height = Some(0) THEN 0 ELSE The(height)

\* a batch that tries every resolution whatever the height of the source
UpscaleAllowed(source_height, height) == FALSE

\* cli.py 672: `if original_height <= height: continue`
Upscales(source_height, height) == source_height <= height

\* a batch that runs a job for every pair, whether or not its output exists
AlwaysNeedsJob(transcode_path_exists, regenerate) == TRUE

\* cli.py 678: `if not transcode_path.exists() or regenerate`
NeedsJob(transcode_path_exists, regenerate) == ~transcode_path_exists \/ regenerate

\* the outputs of a video that exist when the batch comes to it
OutputSets == {{}, {720}, {1080, 720, 480}}

\* cli.py 601-609: the handler is installed, the options and the
\* configuration are read; with transcoding disabled the command returns
B_Config ==
    /\ bpc = "start"
    /\ \E c \in BatchConfigs :
          /\ cfg' = c
          /\ IF ~c.enable_transcoding
             THEN /\ bpc' = "done"
                  /\ UNCHANGED data_path
             ELSE /\ bpc' = "configured"
                  /\ data_path' = Some("data")
    /\ handled' = None
    /\ UNCHANGED <<osVars, call, working_encoder_cache, job, worked, registry, vinfos, registry0,
                   cancelled_at, visited, idx, res_i, original_height, vi_height, outs,
                   video_is_corrupt, has, status>>

\* cli.py 610-649
B_Start ==
    /\ bpc = "configured"
    /\ vinfos' = WorkList(cfg, registry)
    /\ registry0' = registry
    /\ status' = write_transcoding_status(0, Len(vinfos'), None)
    /\ bpc' = "loop"
    /\ handled' = None
    /\ UNCHANGED <<osVars, call, working_encoder_cache, job, worked, cfg, registry, data_path,
                   cancelled_at, visited, idx, res_i, original_height, vi_height, outs,
                   video_is_corrupt, has>>

\* cli.py 651-666: the next video of the work list
B_NextVideo ==
    /\ bpc = "loop"
    /\ idx < Len(vinfos)
    /\ idx' = idx + 1
    /\ status' = write_transcoding_status(idx + 1, Len(vinfos), Some(vinfos[idx + 1]))
    /\ \E height \in VideoHeights, existing \in OutputSets :
          /\ vi_height' = height
          /\ outs' = existing
    /\ has' = {}
    /\ \E video_path_exists \in BOOLEAN :
          IF ~video_path_exists
          THEN UNCHANGED <<bpc, res_i, original_height, video_is_corrupt>>
          ELSE /\ original_height' = HeightOrZero(vi_height')
               /\ video_is_corrupt' = FALSE
               /\ res_i' = 1
               /\ bpc' = "res"
    /\ handled' = None
    /\ visited' = Append(visited, vinfos[idx + 1])
    /\ UNCHANGED <<osVars, call, working_encoder_cache, job, worked, cfg, registry, vinfos, registry0,
                   data_path, cancelled_at>>

\* cli.py 701-702
B_Finish ==
    /\ bpc = "loop"
    /\ idx >= Len(vinfos)
    /\ status' = clear_transcoding_status(status)
    /\ bpc' = "done"
    /\ handled' = None
    /\ UNCHANGED <<osVars, call, working_encoder_cache, job, worked, cfg, registry, vinfos, registry0,
                   data_path, cancelled_at, visited, idx, res_i,
                   original_height, vi_height, outs, video_is_corrupt, has>>

\* cli.py 668-670: the resolutions are exhausted, or the break
B_ResDone ==
    /\ bpc = "res"
    /\ res_i > Len(cfg.resolutions) \/ video_is_corrupt
    /\ bpc' = "loop"
    /\ handled' = None
    /\ UNCHANGED <<osVars, call, working_encoder_cache, job, worked, cfg, registry, vinfos, registry0,
                   data_path, cancelled_at, visited, idx, res_i,
                   original_height, vi_height, outs, video_is_corrupt, has, status>>

MoreResolutions == bpc = "res" /\ res_i <= Len(cfg.resolutions) /\ ~video_is_corrupt

\* cli.py 672-673
B_ResSkip ==
    /\ MoreResolutions
    /\ Upscales(original_height, cfg.resolutions[res_i])
    /\ res_i' = res_i + 1
    /\ handled' = None
    /\ UNCHANGED <<osVars, call, working_encoder_cache, job, worked, bpc, cfg, registry, vinfos,
                   registry0, data_path, cancelled_at, visited, idx,
                   original_height, vi_height, outs, video_is_corrupt, has, status>>

\* cli.py 695-699: the output exists and regenerate is off
B_ResReuse ==
    /\ MoreResolutions
    /\ ~Upscales(original_height, cfg.resolutions[res_i])
    /\ ~NeedsJob(cfg.resolutions[res_i] \in outs, cfg.regenerate)
    /\ has' = has \cup {cfg.resolutions[res_i]}
    /\ res_i' = res_i + 1
    /\ handled' = None
    /\ UNCHANGED <<osVars, call, working_encoder_cache, job, worked, bpc, cfg, registry, vinfos,
                   registry0, data_path, cancelled_at, visited, idx,
                   original_height, vi_height, outs, video_is_corrupt, status>>

\* cli.py 675-682: transcode_video_quality is called, timeout None
B_StartJob ==
    /\ MoreResolutions
    /\ ~Upscales(original_height, cfg.resolutions[res_i])
    /\ NeedsJob(cfg.resolutions[res_i] \in outs, cfg.regenerate)
    /\ job' = NewJob(vinfos[idx], cfg.resolutions[res_i], cfg.use_gpu,
                     TimeoutArgument(cfg.base_timeout),
                     cfg.encoder_preference,
                     IF cfg.resolutions[res_i] \in outs THEN "complete" ELSE "absent")
    /\ bpc' = "in_job"
    /\ handled' = None
    /\ UNCHANGED <<osVars, call, working_encoder_cache, worked, cfg, registry, vinfos, registry0,
                   data_path, cancelled_at, visited, idx, res_i,
                   original_height, vi_height, outs, video_is_corrupt, has, status>>

\* a batch that never takes a video out of the registry
NeverCleared(corrupt_list, video_id, ret) ==
    IF ~ret[1] /\ ret[2] = Some("corruption")
    THEN mark_video_corrupt(corrupt_list, video_id)
    ELSE corrupt_list

\* a batch that marks the video corrupt after any failed job
MarkOnAnyFailure(corrupt_list, video_id, ret) ==
    IF ret[1]
    THEN IF is_video_corrupt(corrupt_list, video_id)
         THEN clear_video_corrupt(corrupt_list, video_id)
         ELSE corrupt_list
    ELSE mark_video_corrupt(corrupt_list, video_id)

\* cli.py 683-694: what the three branches do to the registry, ...
RegistryAfterJob(corrupt_list, video_id, ret) ==
    IF ret[1]
    THEN IF is_video_corrupt(corrupt_list, video_id)
         THEN clear_video_corrupt(corrupt_list, video_id)
         ELSE corrupt_list
    ELSE IF ret[2] = Some("corruption")
    THEN mark_video_corrupt(corrupt_list, video_id)
    ELSE corrupt_list

\* a batch that goes on with the video after a corruption outcome
CorruptFlagKept(flag, ret) == flag

\* ... to video_is_corrupt, ...
CorruptFlagAfterJob(flag, ret) ==
    IF ~ret[1] /\ ret[2] = Some("corruption") THEN TRUE ELSE flag

\* ... and to the has_<height>p flags
HasAfterJob(flags, height, ret) == IF ret[1] THEN flags \cup {height} ELSE flags

\* what the job left at transcode_path
OutsAfterJob(files, height, out_file) ==
    IF out_file = "absent" THEN files \ {height} ELSE files \cup {height}

B_JobReturn ==
    /\ bpc = "in_job"
    /\ job.pc = "returned"
    /\ LET ret == The(job.ret) IN
          /\ registry' = RegistryAfterJob(registry, job.video, ret)
          /\ video_is_corrupt' = CorruptFlagAfterJob(video_is_corrupt, ret)
          /\ has' = HasAfterJob(has, job.height, ret)
          /\ outs' = OutsAfterJob(outs, job.height, job.out_file)
          /\ handled' = Some([video |-> job.video, height |-> job.height, ret |-> job.ret,
                              valid |-> job.valid, file0 |-> job.file0,
                              registry |-> registry, idx |-> idx, res_i |-> res_i])
    /\ job' = NoJob
    /\ res_i' = res_i + 1
    /\ bpc' = "res"
    /\ UNCHANGED <<osVars, call, working_encoder_cache, worked, cfg, vinfos, registry0, data_path,
                   cancelled_at, visited, idx,
                   original_height, vi_height, status>>

Init ==
    /\ call = NoCall
    /\ working_encoder_cache = [m \in Modes |-> None]
    /\ job = NoJob
    /\ worked = [m \in Modes |-> None]
    /\ bpc = "start"
    /\ cfg = NoConfig
    /\ registry \in RegistryLists
    /\ vinfos = <<>>
    /\ registry0 = <<>>
    /\ data_path = None
    /\ cancelled_at = None
    /\ visited = <<>>
    /\ idx = 0
    /\ res_i = 0
    /\ original_height = 0
    /\ vi_height = None
    /\ outs = {}
    /\ video_is_corrupt = FALSE
    /\ has = {}
    /\ status = None
    /\ handled = None
    /\ OsAbsent

\* a process that exits on SIGTERM without touching the status record
StatusKept(record, path) == record

\* cli.py 597-598 and util.py 124-133: what handle_cancel does to the status
StatusAfterCancel(record, path) ==
    IF path # None THEN clear_transcoding_status(record) ELSE record

\* the states in which the process runs with handle_cancel installed
Alive == bpc \in {"start", "configured", "loop", "res", "in_job"}

\* whether ffmpeg is encoding to out_path
Encoding == job.pc \in {"cached", "candidates"}

\* cli.py 595-599: SIGTERM arrives; handle_cancel clears the status if
\* data_path is set and calls sys.exit(0).  The memory of the process is
\* gone; an encoder that was running may have left a file at out_path.
Cancel ==
    /\ Alive
    /\ status' = StatusAfterCancel(status, data_path)
    /\ cancelled_at' = Some(<<bpc, job.pc>>)
    /\ bpc' = "cancelled"
    /\ IF Encoding
       THEN \E out_file \in {job.out_file, "partial"} :
               outs' = OutsAfterJob(outs, job.height, out_file)
       ELSE UNCHANGED outs
    /\ job' = NoJob
    /\ working_encoder_cache' = [m \in Modes |-> None]
    /\ worked' = [m \in Modes |-> None]
    /\ cfg' = NoConfig
    /\ data_path' = None
    /\ vinfos' = <<>>
    /\ visited' = <<>>
    /\ idx' = 0
    /\ res_i' = 0
    /\ original_height' = 0
    /\ vi_height' = None
    /\ video_is_corrupt' = FALSE
    /\ handled' = None
    /\ UNCHANGED <<osVars, call, registry, registry0, has>>

\* a step of the batch process itself
BatchStep ==
    \/ B_Config \/ B_Start \/ B_NextVideo \/ B_Finish
    \/ B_ResDone \/ B_ResSkip \/ B_ResReuse \/ B_StartJob \/ B_JobReturn
    \/ TQ_Step

Next == BatchStep \/ Cancel

Spec == Init /\ [][Next]_vars

\* the batch left to run: no signal arrives, and the process keeps taking
\* steps (every subprocess ends, by its exit or by its timeout)
UncancelledSpec == Init /\ [][BatchStep]_vars /\ WF_vars(BatchStep)

(***************************************************************************)
(* The persisted state, one file at a time (util.py 106-122, cli.py        *)
(* 75-117).  A file is missing, cannot be opened, holds bytes that are not *)
(* text, holds text that is not JSON, or holds a JSON document.            *)
(***************************************************************************)
Missing == [kind |-> "missing"]
Json(v) == [kind |-> "json", value |-> v]
BadFileKinds == {"unreadable", "undecodable", "malformed"}

\* `with open(file, 'r') as f: json.load(f)`: the document, or the
\* exception that open, the text decoder or the parser raises
json_load(file) ==
    CASE file.kind = "json" -> [raised |-> "none", value |-> file.value]
      [] file.kind = "malformed" -> [raised |-> "JSONDecodeError"]
      [] file.kind = "undecodable" -> [raised |-> "UnicodeDecodeError"]
      [] file.kind = "unreadable" -> [raised |-> "PermissionError"]
      [] file.kind = "missing" -> [raised |-> "FileNotFoundError"]

\* the classes an exception is an instance of (IOError is OSError)
ExceptionClasses(exc) ==
    CASE exc = "JSONDecodeError" -> {"JSONDecodeError", "ValueError", "Exception"}
      [] exc = "UnicodeDecodeError" -> {"UnicodeDecodeError", "ValueError", "Exception"}
      [] exc = "PermissionError" -> {"PermissionError", "OSError", "Exception"}
      [] exc = "FileNotFoundError" -> {"FileNotFoundError", "OSError", "Exception"}

Returns(v) == [raised |-> "none", value |-> v]

\* util.py 112
default_status == [is_running |-> FALSE, current |-> 0, total |-> 0, current_video |-> None]

\* util.py 120: `except Exception`
StatusReadCatches == {"Exception"}

\* util.py 106-122
read_transcoding_status(file) ==
    IF file.kind = "missing" THEN Returns(default_status)
    ELSE LET r == json_load(file)
         IN  IF r.raised = "none" THEN r
             ELSE IF ExceptionClasses(r.raised) \cap StatusReadCatches # {}
                  THEN Returns(default_status)
                  ELSE r

\* a reader that lets a parse error through
LoadCatchesIOErrorOnly == {"OSError"}

\* cli.py 82: `except (json.JSONDecodeError, IOError)`
LoadCatches == {"JSONDecodeError", "OSError"}

\* cli.py 75-84
load_corrupt_videos(file) ==
    IF file.kind = "missing" THEN Returns(<<>>)
    ELSE LET r == json_load(file)
         IN  IF r.raised = "none" THEN r
             ELSE IF ExceptionClasses(r.raised) \cap LoadCatches # {}
                  THEN Returns(<<>>)
                  ELSE r

\* cli.py 86-94: the file is rewritten; a file that cannot be opened stays
\* as it is (the IOError is logged)
save_corrupt_videos(file, corrupt_list) ==
    IF file.kind = "unreadable" THEN file ELSE Json(corrupt_list)

\* cli.py 96-99 on the file: the answer, or the exception of the reader
IsVideoCorruptAt(file, video_id) ==
    LET r == load_corrupt_videos(file)
    IN  IF r.raised # "none" THEN r ELSE Returns(is_video_corrupt(r.value, video_id))

\* the list an operation wants to save
Updated(op, corrupt_list, video_id) ==
    IF op = "mark_video_corrupt" THEN mark_video_corrupt(corrupt_list, video_id)
    ELSE clear_video_corrupt(corrupt_list, video_id)

\* cli.py 101-107 and 109-117 on the file: the file they leave, or the
\* exception of the reader
UpdateAt(file, video_id, op) ==
    LET r == load_corrupt_videos(file)
    IN  IF r.raised # "none" THEN [raised |-> r.raised, file |-> file]
        ELSE [raised |-> "none",
              file |-> IF Updated(op, r.value, video_id) # r.value
                       THEN save_corrupt_videos(file, Updated(op, r.value, video_id))
                       ELSE file]

MarkVideoCorruptAt(file, video_id) == UpdateAt(file, video_id, "mark_video_corrupt")
ClearVideoCorruptAt(file, video_id) == UpdateAt(file, video_id, "clear_video_corrupt")

\* the files a call is drawn with
RegistryFiles ==
    {Missing} \cup {[kind |-> k] : k \in BadFileKinds} \cup {Json(l) : l \in RegistryLists}
StatusFiles ==
    {Missing} \cup {[kind |-> k] : k \in BadFileKinds}
    \cup {Json(The(write_transcoding_status(c, NumVideos, Some(1)))) : c \in 1..NumVideos}

StoreCalls ==
    {[fn |-> "read_transcoding_status", done |-> FALSE, args |-> [file |-> f]] :
        f \in StatusFiles}
    \cup {[fn |-> "_load_corrupt_videos", done |-> FALSE, args |-> [file |-> f]] :
        f \in RegistryFiles}
    \cup {[fn |-> op, done |-> FALSE, args |-> [file |-> f, video_id |-> v]] :
        op \in {"is_video_corrupt", "mark_video_corrupt", "clear_video_corrupt"},
        f \in RegistryFiles, v \in Videos}

CallReadStatus ==
    /\ Pending("read_transcoding_status")
    /\ call' = [call EXCEPT !.done = TRUE] @@ [ret |-> read_transcoding_status(call.args.file)]
    /\ UNCHANGED <<working_encoder_cache, job, worked, batchVars, osVars>>

CallLoadCorrupt ==
    /\ Pending("_load_corrupt_videos")
    /\ call' = [call EXCEPT !.done = TRUE] @@ [ret |-> load_corrupt_videos(call.args.file)]
    /\ UNCHANGED <<working_encoder_cache, job, worked, batchVars, osVars>>

CallIsCorrupt ==
    /\ Pending("is_video_corrupt")
    /\ call' = [call EXCEPT !.done = TRUE] @@
               [ret |-> IsVideoCorruptAt(call.args.file, call.args.video_id)]
    /\ UNCHANGED <<working_encoder_cache, job, worked, batchVars, osVars>>

CallMarkCorrupt ==
    /\ Pending("mark_video_corrupt")
    /\ call' = [call EXCEPT !.done = TRUE] @@
               [ret |-> MarkVideoCorruptAt(call.args.file, call.args.video_id)]
    /\ UNCHANGED <<working_encoder_cache, job, worked, batchVars, osVars>>

CallClearCorrupt ==
    /\ Pending("clear_video_corrupt")
    /\ call' = [call EXCEPT !.done = TRUE] @@
               [ret |-> ClearVideoCorruptAt(call.args.file, call.args.video_id)]
    /\ UNCHANGED <<working_encoder_cache, job, worked, batchVars, osVars>>

StoreInit ==
    /\ call \in StoreCalls
    /\ working_encoder_cache = [m \in Modes |-> None]
    /\ job = NoJob
    /\ worked = [m \in Modes |-> None]
    /\ BatchAbsent
    /\ OsAbsent

StoreNext ==
    CallReadStatus \/ CallLoadCorrupt \/ CallIsCorrupt \/ CallMarkCorrupt \/ CallClearCorrupt

StoreSpec == StoreInit /\ [][StoreNext]_vars

(***************************************************************************)
(* cli.py 704-751 and util.py 50-74: bulk_import processes and the lock    *)
(* file.  schedule.py 11-13 starts one at every scheduler tick and the     *)
(* manual scan starts one on request; each is a process of its own.  An    *)
(* importer is [pc, step, created]: where it is, which step of the import  *)
(* it runs, and whether its create_lock made the file.                     *)
(***************************************************************************)
Importers == {"scheduler", "manual"}

\* cli.py 723-744: the steps between create_lock and remove_lock
ImportSteps == <<"scan_videos", "sync_metadata", "create_posters", "transcode_videos">>

\* how a bulk_import process has ended: the lock existed (711), it ran to
\* its end (750), an exception left it, or SIGTERM ended it
EndedPcs == {"aborted", "finished", "raised", "exited"}
NotStarted == [pc |-> "none", step |-> 0, created |-> FALSE]
AliveImporter(p) == importers[p].pc \notin EndedPcs \cup {"none"}

\* util.py 50-55
lock_exists(lock) == lock

\* what no step of a bulk_import process touches
lockFrame == <<call, working_encoder_cache, job, worked, batchVars, registry_file, writers>>

\* Popen(["fireshare", "bulk-import"]): a new process
BI_Launch(p) ==
    /\ ~AliveImporter(p)
    /\ importers' = [importers EXCEPT ![p] = [pc |-> "check", step |-> 0, created |-> FALSE]]
    /\ UNCHANGED <<lockfile, lockFrame>>

\* cli.py 709-711
BI_Check(p) ==
    /\ AliveImporter(p) /\ importers[p].pc = "check"
    /\ importers' = [importers EXCEPT ![p].pc =
                        IF lock_exists(lockfile) THEN "aborted" ELSE "create"]
    /\ UNCHANGED <<lockfile, lockFrame>>

\* util.py 61-62: `if not lockfile.exists()` of create_lock; when the file
\* is there create_lock does nothing and bulk_import goes on
BI_CreateTest(p) ==
    /\ AliveImporter(p) /\ importers[p].pc = "create"
    /\ importers' = [importers EXCEPT
                        ![p].pc = IF ~lockfile THEN "open" ELSE "steps",
                        ![p].step = IF ~lockfile THEN 0 ELSE 1]
    /\ UNCHANGED <<lockfile, lockFrame>>

\* util.py 63-65: open(lockfile, 'x') creates the file, or raises
\* FileExistsError, which nothing catches
BI_CreateOpen(p) ==
    /\ AliveImporter(p) /\ importers[p].pc = "open"
    /\ IF lockfile
       THEN /\ importers' = [importers EXCEPT ![p].pc = "raised"]
            /\ UNCHANGED lockfile
       ELSE /\ lockfile' = TRUE
            /\ importers' = [importers EXCEPT ![p].pc = "steps", ![p].step = 1,
                                               ![p].created = TRUE]
    /\ UNCHANGED lockFrame

\* cli.py 723-746: a step returns; the transcode step is left out when
\* ENABLE_TRANSCODING or auto_transcode is off
BI_Step(p) ==
    /\ AliveImporter(p) /\ importers[p].pc = "steps"
    /\ \E transcoding \in BOOLEAN :
          LET last == IF transcoding THEN Len(ImportSteps) ELSE Len(ImportSteps) - 1
          IN  importers' = [importers EXCEPT
                              ![p].pc = IF importers[p].step >= last THEN "remove" ELSE "steps",
                              ![p].step = IF importers[p].step >= last THEN 0 ELSE @ + 1]
    /\ UNCHANGED <<lockfile, lockFrame>>

\* cli.py 723-746: a step raises (ctx.invoke is not inside a try); the
\* exception leaves bulk_import
BI_Raise(p) ==
    /\ AliveImporter(p) /\ importers[p].pc = "steps"
    /\ importers' = [importers EXCEPT ![p].pc = "raised"]
    /\ UNCHANGED <<lockfile, lockFrame>>

\* cli.py 595-601: SIGTERM during the transcode step; handle_cancel calls
\* sys.exit(0) and SystemExit leaves bulk_import
BI_Sigterm(p) ==
    /\ AliveImporter(p) /\ importers[p].pc = "steps"
    /\ ImportSteps[importers[p].step] = "transcode_videos"
    /\ importers' = [importers EXCEPT ![p].pc = "exited"]
    /\ UNCHANGED <<lockfile, lockFrame>>

\* util.py 71-72: `if lockfile.exists()` of remove_lock
BI_RemoveTest(p) ==
    /\ AliveImporter(p) /\ importers[p].pc = "remove"
    /\ importers' = [importers EXCEPT ![p].pc = IF lockfile THEN "unlink" ELSE "finished"]
    /\ UNCHANGED <<lockfile, lockFrame>>

\* util.py 73-74: os.remove(lockfile), FileNotFoundError when it is gone
BI_Unlink(p) ==
    /\ AliveImporter(p) /\ importers[p].pc = "unlink"
    /\ IF lockfile
       THEN /\ lockfile' = FALSE
            /\ importers' = [importers EXCEPT ![p].pc = "finished"]
       ELSE /\ importers' = [importers EXCEPT ![p].pc = "raised"]
            /\ UNCHANGED lockfile
    /\ UNCHANGED lockFrame

LockInit ==
    /\ call = NoCall
    /\ working_encoder_cache = [m \in Modes |-> None]
    /\ job = NoJob
    /\ worked = [m \in Modes |-> None]
    /\ BatchAbsent
    /\ lockfile = FALSE
    /\ importers = [p \in Importers |-> NotStarted]
    /\ registry_file = Missing
    /\ writers = <<>>

LockNext ==
    \E p \in Importers :
        \/ BI_Launch(p) \/ BI_Check(p) \/ BI_CreateTest(p) \/ BI_CreateOpen(p)
        \/ BI_Step(p) \/ BI_Raise(p) \/ BI_Sigterm(p)
        \/ BI_RemoveTest(p) \/ BI_Unlink(p)

LockSpec == LockInit /\ [][LockNext]_vars

(***************************************************************************)
(* cli.py 75-117 run by two processes at once on corrupt_videos.json: the  *)
(* batch marks a video (cli.py 689-692), and another process marks one (a  *)
(* second batch, started by scan_video for an upload, cli.py 423-427) or   *)
(* clears one (the endpoint clear_corrupt_status, api.py 1585-1596).  A    *)
(* writer is [op, video_id, pc, corrupt_list]; corrupt_list is its local   *)
(* list.  Nothing in the source locks the file.                            *)
(***************************************************************************)
Writers == {"batch", "other"}
WriterOps == {"mark_video_corrupt", "clear_corrupt_status"}

\* what no step of a registry writer touches
raceFrame == <<call, working_encoder_cache, job, worked, batchVars, lockfile, importers>>

NewWriter(op, video_id) ==
    [op |-> op, video_id |-> video_id, corrupt_list |-> <<>>,
     pc |-> IF op = "clear_corrupt_status" THEN "check" ELSE "load"]

\* api.py 1591-1592: `if not is_video_corrupt(video_id)`, answer 400
W_Check(w) ==
    /\ writers[w].pc = "check"
    /\ LET r == IsVideoCorruptAt(registry_file, writers[w].video_id)
       IN  writers' = [writers EXCEPT ![w].pc =
                          IF r.raised # "none" THEN "raised"
                          ELSE IF ~r.value THEN "done" ELSE "load"]
    /\ UNCHANGED <<registry_file, raceFrame>>

\* cli.py 103-105 and 111-113: the list is read and changed in memory; an
\* operation that finds nothing to change does not save
W_Load(w) ==
    /\ writers[w].pc = "load"
    /\ LET r == load_corrupt_videos(registry_file)
       IN  IF r.raised # "none"
           THEN writers' = [writers EXCEPT ![w].pc = "raised"]
           ELSE LET new == Updated(writers[w].op, r.value, writers[w].video_id)
                IN  writers' = [writers EXCEPT
                                  ![w].corrupt_list = new,
                                  ![w].pc = IF new = r.value THEN "done" ELSE "save"]
    /\ UNCHANGED <<registry_file, raceFrame>>

\* cli.py 90: open(corrupt_file, 'w') empties the file
W_Open(w) ==
    /\ writers[w].pc = "save"
    /\ registry_file' = [kind |-> "malformed"]
    /\ writers' = [writers EXCEPT ![w].pc = "write"]
    /\ UNCHANGED raceFrame

\* cli.py 90-91: json.dump and the close at the end of the with block
W_Write(w) ==
    /\ writers[w].pc = "write"
    /\ registry_file' = save_corrupt_videos(registry_file, writers[w].corrupt_list)
    /\ writers' = [writers EXCEPT ![w].pc = "done"]
    /\ UNCHANGED raceFrame

RaceInit ==
    /\ call = NoCall
    /\ working_encoder_cache = [m \in Modes |-> None]
    /\ job = NoJob
    /\ worked = [m \in Modes |-> None]
    /\ BatchAbsent
    /\ lockfile = FALSE
    /\ importers = <<>>
    /\ registry_file \in {Missing} \cup {Json(l) : l \in RegistryLists}
    /\ \E a \in Videos, b \in Videos, op \in WriterOps :
          writers = [w \in Writers |->
                        IF w = "batch" THEN NewWriter("mark_video_corrupt", a)
                        ELSE NewWriter(op, b)]

RaceNext == \E w \in Writers : W_Check(w) \/ W_Load(w) \/ W_Open(w) \/ W_Write(w)

RaceSpec == RaceInit /\ [][RaceNext]_vars

(***************************************************************************)
(* Properties of the transcode executor (checked under ExecSpec).          *)
(***************************************************************************)
Running == job.pc # "idle"
IsCandidate(x) == x.phase = "candidate"
\* the invocations of the candidate phase of the running job, in order
CandInvoked == SelectSeq(job.invoked, IsCandidate)
RetSuccess == Some(<<TRUE, None>>)
RetCorruption == Some(<<FALSE, Some("corruption")>>)
RetEncoders == Some(<<FALSE, Some("encoders")>>)

\* C1: once an encoder has succeeded in a mode, the next job of that mode
\* that runs encoders runs the cached encoder as its first invocation (a
\* cache hit), and goes on to the candidate list only if that one failed.
C1_CachedEncoderFirst ==
    (Running /\ job.prev_worked # None) =>
        /\ (job.pc \in {"detect", "candidates"} \/ (job.pc = "returned" /\ job.ret # RetCorruption))
              => job.invoked # <<>>
        /\ job.invoked # <<>> =>
              /\ job.invoked[1].phase = "cached"
              /\ job.invoked[1].encoder = The(job.prev_worked)
              /\ (Len(job.invoked) >= 2 => ~job.invoked[1].ok)

C1_Witness ==
    /\ Running /\ job.prev_worked # None
    /\ Len(job.invoked) >= 2
    /\ job.invoked[1].phase = "cached"
    /\ job.invoked[2].phase = "candidate"

\* C2 as claimed: the EncoderSpec that failed as the cache hit is never
\* invoked again in the same job.
C2_FailedCachedNeverRerun ==
    (Running /\ job.invoked # <<>> /\ job.invoked[1].phase = "cached" /\ ~job.invoked[1].ok) =>
        \A i \in 2..Len(job.invoked) : job.invoked[i].encoder # job.invoked[1].encoder

\* C2 as amended: a cached encoder that failed is discarded from the cache
\* (the mode's entry is empty while the candidates are tried) and is not run
\* again as a cache hit: only the first invocation of a job can be a cache
\* hit, every later one is a candidate of the full list.
C2_FailedCachedDiscarded ==
    Running =>
        /\ \A i \in 2..Len(job.invoked) : job.invoked[i].phase = "candidate"
        /\ (job.invoked # <<>> /\ job.invoked[1].phase = "cached" /\ ~job.invoked[1].ok
              /\ job.pc \in {"detect", "candidates"})
              => working_encoder_cache[mode] = None

C2_Witness ==
    /\ Running /\ Len(job.invoked) >= 2
    /\ job.invoked[1].phase = "cached" /\ ~job.invoked[1].ok
    /\ job.invoked[2].phase = "candidate"
    /\ job.invoked[2].encoder = job.invoked[1].encoder
    /\ job.pc = "candidates"

\* C3: the candidates are invoked one at a time in the catalog order for
\* (use_gpu, preference); the first that exits 0 ends the job with
\* (True, None) and is cached for the mode; every earlier candidate was
\* invoked and failed, and none is invoked after it.
C3_CandidatesSequential ==
    Running =>
        LET catalog == get_encoder_candidates(job.use_gpu, job.encoder_preference)
            n == Len(CandInvoked)
        IN  /\ n <= Len(catalog)
            /\ \A i \in 1..n : CandInvoked[i].encoder = catalog[i]
            /\ \A i \in 1..(n - 1) : ~CandInvoked[i].ok
            /\ (n > 0 /\ CandInvoked[n].ok) =>
                  /\ job.pc = "returned"
                  /\ job.ret = RetSuccess
                  /\ working_encoder_cache[mode] = Some(CandInvoked[n].encoder)
            /\ (job.pc = "returned" /\ job.ret = RetSuccess) =>
                  job.invoked[Len(job.invoked)].ok

C3_Witness ==
    /\ Running /\ job.pc = "returned" /\ job.ret = RetSuccess
    /\ Len(CandInvoked) = 3
    /\ CandInvoked[3].ok

\* C4: when source validation fails the job returns (False, 'corruption')
\* at once and invokes no encoder, neither the cached one nor a candidate.
C4_CorruptionNoEncoder ==
    Running =>
        /\ (job.valid # None /\ ~The(job.valid)[1]) =>
              /\ job.pc = "returned"
              /\ job.ret = RetCorruption
              /\ job.invoked = <<>>
        /\ job.ret = RetCorruption => (job.valid # None /\ ~The(job.valid)[1])

C4_Witness ==
    /\ Running /\ job.pc = "returned" /\ job.ret = RetCorruption
    /\ working_encoder_cache[mode] # None

\* C6 as claimed: after a job that returns failure no file exists at
\* out_path, whatever was there when the job started.
C6_NoFileAfterFailure ==
    (job.pc = "returned" /\ job.ret \in {RetCorruption, RetEncoders}) => job.out_file = "absent"

\* C6 as amended: after a job that returns 'encoders' no file exists at
\* out_path, whatever was there when the job started; after a job that
\* returns 'corruption' out_path is as it was when the job started (an
\* earlier output is still there); so no partial output remains.
C6_NoPartialAfterFailure ==
    job.pc = "returned" =>
        /\ job.ret = RetEncoders => job.out_file = "absent"
        /\ job.ret = RetCorruption => job.out_file = job.file0
        /\ job.out_file # "partial"

C6_Witness ==
    /\ job.pc = "returned" /\ job.ret = RetEncoders
    /\ job.file0 = "complete" /\ job.out_file = "absent"
    /\ Len(job.invoked) = 3

\* C8 as claimed (the docstring): with GPU enabled the chain is AV1 GPU,
\* H.264 GPU, AV1 CPU, H.264 CPU.
DocstringChain == <<"av1_nvenc", "h264_nvenc", "libaom-av1", "libx264">>

CodeChain == <<"h264_nvenc", "av1_nvenc", "libx264", "libaom-av1">>

AllCandidatesFailed ==
    /\ Len(CandInvoked) = Len(get_encoder_candidates(job.use_gpu, job.encoder_preference))
    /\ \A i \in 1..Len(CandInvoked) : ~CandInvoked[i].ok

\* C5: a job whose source validates returns (False, 'encoders') exactly
\* when every encoder of the candidate list was run and failed; the batch
\* then leaves the corrupt registry as it is and goes on with the next
\* resolution of the video (no break), and every video of the work list
\* is still visited.
C5_EncodersFailureContinues ==
    /\ job.pc = "returned" =>
          (job.ret = RetEncoders <=> (The(job.valid)[1] /\ AllCandidatesFailed))
    /\ (handled # None /\ The(handled).ret = RetEncoders) =>
          /\ registry = The(handled).registry
          /\ bpc = "res"
          /\ ~video_is_corrupt
          /\ idx = The(handled).idx
          /\ res_i = The(handled).res_i + 1
          /\ status # None
    /\ (bpc = "done" /\ cfg.enable_transcoding) => idx = Len(vinfos)

C5_Witness ==
    /\ handled # None
    /\ The(handled).ret = RetEncoders
    /\ The(handled).video \notin Range(registry)
    /\ idx = 1 /\ Len(vinfos) = 2
    /\ MoreResolutions

(***************************************************************************)
(* Properties of the pure functions (checked under UtilSpec).              *)
(***************************************************************************)
Names(list) == [i \in 1..Len(list) |-> list[i].name]

\* C7: _get_encoder_candidates returns exactly the ordered lists of the
\* catalog: h264 -> [H264-GPU, H264-CPU] / [H264-CPU]; av1 -> [AV1-GPU,
\* AV1-CPU] / [AV1-CPU]; auto -> [H264-GPU, AV1-GPU, H264-CPU, AV1-CPU] /
\* [H264-CPU, AV1-CPU]; no NVENC encoder without use_gpu; never empty.
C7_CandidateLists ==
    Returned("_get_encoder_candidates") =>
        LET g == call.args.use_gpu
            p == call.args.encoder_preference
            r == call.ret
        IN  /\ (p = "h264" /\ g)  => Names(r) = <<"H.264 NVENC", "H.264 CPU">>
            /\ (p = "h264" /\ ~g) => Names(r) = <<"H.264 CPU">>
            /\ (p = "av1" /\ g)   => Names(r) = <<"AV1 NVENC", "AV1 CPU">>
            /\ (p = "av1" /\ ~g)  => Names(r) = <<"AV1 CPU">>
            /\ (p = "auto" /\ g)  =>
                  Names(r) = <<"H.264 NVENC", "AV1 NVENC", "H.264 CPU", "AV1 CPU">>
            /\ (p = "auto" /\ ~g) => Names(r) = <<"H.264 CPU", "AV1 CPU">>
            /\ ~g => \A i \in 1..Len(r) : r[i].video_codec \notin {"h264_nvenc", "av1_nvenc"}
            /\ \A i \in 1..Len(r) : r[i] \in Encoders
            /\ Len(r) > 0

C7_Witness ==
    /\ Returned("_get_encoder_candidates")
    /\ call.args.use_gpu /\ call.args.encoder_preference = "auto"
    /\ Len(call.ret) = 4

\* C9: calculate_transcode_timeout returns clamp(duration * 60, 600, 28800)
\* for every duration the probe reports, from 0 upwards, and the base
\* timeout only when the duration is unknown (None).
Clamp(x, lo, hi) == IF x < lo THEN lo ELSE IF x > hi THEN hi ELSE x

C9_TimeoutClamp ==
    Returned("calculate_transcode_timeout") =>
        LET d == call.args.duration IN
        /\ d # None => call.ret = Clamp((The(d) * 60) \div 1000, 600, 28800)
        /\ d = None => call.ret = call.args.base_timeout

\* C10: for a non-AV1 source whose probe succeeds and whose decode test
\* ran to its exit, validation fails iff the exit code is non-zero or
\* stderr contains, ignoring case, an entry of the indicator table; when an
\* entry matches (also with exit code 0) the reason is 'Video file appears
\* to be corrupt: <indicator>' with the first matching entry of the table.
SameIgnoringCase(a, b) ==
    a = b \/ \E i \in 1..Len(LowerTable) : a \in Range(LowerTable[i]) /\ b \in Range(LowerTable[i])

Matches(stderr, indicator) == \E j \in 1..Len(stderr) : SameIgnoringCase(stderr[j], indicator)

NonAV1Decoded ==
    /\ Returned("validate_video_file")
    /\ call.args.which_ffprobe /\ call.args.which_ffmpeg
    /\ call.args.probe.kind = "exit" /\ call.args.probe.returncode = 0
    /\ call.args.probe.stdout = "streams"
    /\ call.args.probe.codec_name \in {"h264", "hevc"}
    /\ call.args.decode.kind = "exit"

C10_StrictValidation ==
    NonAV1Decoded =>
        LET d == call.args.decode
            T == VIDEO_CORRUPTION_INDICATORS
            matched == {i \in 1..Len(T) : Matches(d.stderr, T[i])}
        IN  /\ ~call.ret[1] <=> (d.returncode # 0 \/ matched # {})
            /\ call.ret[1] => call.ret[2] = None
            /\ \A i \in matched :
                  (\A m \in matched : i <= m) =>
                      call.ret = <<FALSE, Some(<<"Video file appears to be corrupt: ", <<T[i]>> >>)>>

C10_Witness ==
    /\ NonAV1Decoded
    /\ call.args.decode.returncode = 0
    /\ call.args.decode.stderr = <<"NON-EXISTING PPS", "moov atom not found">>
    /\ call.ret = <<FALSE, Some(<<"Video file appears to be corrupt: ", <<"moov atom not found">> >>)>>

\* an AV1 source whose probe succeeded and whose decode test ran to its exit
AV1Decoded ==
    /\ Returned("validate_video_file")
    /\ call.args.which_ffprobe /\ call.args.which_ffmpeg
    /\ call.args.probe.kind = "exit" /\ call.args.probe.returncode = 0
    /\ call.args.probe.stdout = "streams"
    /\ \E c \in AV1_CODEC_NAMES : SameIgnoringCase(call.args.probe.codec_name, c)
    /\ call.args.decode.kind = "exit"

\* the indicator is one of the known AV1 false positives
IsFalsePositive(indicator) ==
    \E f \in AV1_FALSE_POSITIVE_INDICATORS : SameIgnoringCase(indicator, f)

\* C11: for an AV1 source, validation fails whenever the decode test exits
\* non-zero with a non-empty stderr, also when every matched indicator is a
\* known AV1 false positive.
C11_AV1NonZeroExitFails ==
    (AV1Decoded /\ call.args.decode.returncode # 0 /\ call.args.decode.stderr # <<>>)
        => ~call.ret[1]

\* C12: for an AV1 source whose decode test exits 0, validation returns
\* (True, None) iff no matched indicator lies outside the false-positive
\* subset; when one does, the result is the failure naming the first such
\* indicator of the table, whatever else matched.
C12_AV1ExitZero ==
    (AV1Decoded /\ call.args.decode.returncode = 0) =>
        LET d == call.args.decode
            T == VIDEO_CORRUPTION_INDICATORS
            real == {i \in 1..Len(T) : Matches(d.stderr, T[i]) /\ ~IsFalsePositive(T[i])}
        IN  /\ call.ret = <<TRUE, None>> <=> real = {}
            /\ \A i \in real :
                  (\A m \in real : i <= m) =>
                      call.ret = <<FALSE, Some(<<"Video file appears to be corrupt: ", <<T[i]>> >>)>>

C12_Witness ==
    /\ AV1Decoded
    /\ call.args.probe.codec_name = "AV1"
    /\ call.args.decode.returncode = 0
    /\ call.args.decode.stderr = <<"CORRUPT FRAME DETECTED", "moov atom not found">>
    /\ call.ret = <<FALSE, Some(<<"Video file appears to be corrupt: ", <<"moov atom not found">> >>)>>

(***************************************************************************)
(* Further properties of the batch (checked under Spec).                   *)
(***************************************************************************)
\* the reasons validate_video_file gives when a tool is not resolvable
ToolMissingReasons ==
    {"ffprobe command not found - ensure ffmpeg is installed",
     "ffmpeg command not found - ensure ffmpeg is installed"}

\* the validation of the job (running, or just handled by the batch) failed
\* because a tool is missing
ToolMissing(valid) == valid # None /\ ~The(valid)[1] /\ The(valid)[2] \in ToolMissingReasons

\* C13: a validation failure caused by a missing tool is not classified as
\* corruption, and a job that failed for that reason adds no video to the
\* corrupt registry.
C13_ToolMissingNotCorruption ==
    /\ (job.pc = "returned" /\ ToolMissing(job.valid)) => job.ret # RetCorruption
    /\ (handled # None /\ ToolMissing(The(handled).valid)) => registry = The(handled).registry

\* C14: a job for target height h is started only for a video whose
\* recorded height H is known and greater than h (an unknown height counts
\* as 0, so no job is started for it): the batch never upscales.
C14_NeverUpscale ==
    /\ Running => (bpc = "in_job" /\ job.height = cfg.resolutions[res_i])
    /\ bpc = "in_job" => (vi_height # None /\ The(vi_height) > job.height)
    /\ handled # None => (vi_height # None /\ The(vi_height) > The(handled).height)

C14_Witness ==
    /\ bpc = "in_job"
    /\ vi_height = Some(1080)
    /\ cfg.resolutions = <<1080, 720, 480>>
    /\ res_i = 2 /\ job.height = 720

\* the batch runs with its defaults: neither include_corrupt nor one video
DefaultSelection ==
    /\ bpc # "start"
    /\ cfg.enable_transcoding
    /\ ~cfg.include_corrupt
    /\ cfg.video = None

\* C15: unless include_corrupt is set or one video was requested, a video
\* that is in the registry when the batch starts is not in the work list,
\* no job is started for it in that batch, and the status total does not
\* count it.
C15_CorruptExcluded ==
    DefaultSelection =>
        /\ \A v \in Range(registry0) :
              /\ v \notin Range(vinfos)
              /\ Running => job.video # v
              /\ handled # None => The(handled).video # v
        /\ Running => job.video = vinfos[idx]
        /\ status # None =>
              The(status).total = NumVideos - Cardinality(Range(registry0))

C15_Witness ==
    /\ DefaultSelection
    /\ registry0 = <<1>>
    /\ bpc = "in_job" /\ job.video = 2
    /\ The(status).total = 1

\* the batch runs with regenerate off
NoRegenerate == cfg.enable_transcoding /\ ~cfg.regenerate

\* the resolution loop of the current video is over
ResolutionsOver == bpc = "res" /\ (res_i > Len(cfg.resolutions) \/ video_is_corrupt)

\* C16 as claimed: with regenerate off no job is started for a pair whose
\* output exists, and once the batch is through with a video every enabled
\* height whose output exists has its has-variant flag set.
C16_EveryExistingOutputFlagged ==
    NoRegenerate =>
        /\ Running => job.file0 = "absent"
        /\ ResolutionsOver =>
              \A h \in Range(cfg.resolutions) : h \in outs => h \in has

\* C16 as amended: with regenerate off no job is started for a pair whose
\* output exists (so no subprocess runs for it and the file is not
\* written), and every pair the resolution loop has come to whose output
\* exists and whose height is below the source's has its flag set.
C16_ExistingOutputReused ==
    NoRegenerate =>
        /\ Running => (job.file0 = "absent" /\ job.height \notin outs)
        /\ handled # None => The(handled).file0 = "absent"
        /\ bpc \in {"res", "in_job"} =>
              \A i \in 1..(res_i - 1) :
                  LET h == cfg.resolutions[i]
                  IN  (h \in outs /\ original_height > h) => h \in has

C16_Witness ==
    /\ NoRegenerate
    /\ bpc = "res" /\ res_i = 4
    /\ cfg.resolutions = <<1080, 720, 480>>
    /\ vi_height = Some(2160)
    /\ outs = {1080, 720, 480}
    /\ has = {1080, 720, 480}
    /\ idx = 2

\* C17: when a job returns the corruption outcome the batch adds the video
\* to the registry and starts no further job for the remaining resolutions
\* of that video in this run; the following videos are still processed.
C17_CorruptionAbandonsVideo ==
    /\ (handled # None /\ The(handled).ret = RetCorruption) =>
          /\ registry = mark_video_corrupt(The(handled).registry, The(handled).video)
          /\ is_video_corrupt(registry, The(handled).video)
          /\ video_is_corrupt
          /\ bpc = "res" /\ idx = The(handled).idx
    /\ (bpc \in {"res", "in_job"} /\ video_is_corrupt) =>
          /\ ~Running
          /\ ~ENABLED B_StartJob
          /\ ~ENABLED B_ResReuse
          /\ is_video_corrupt(registry, vinfos[idx])
    /\ (bpc = "done" /\ cfg.enable_transcoding) => idx = Len(vinfos)

\* the first video was found corrupt in this run at its highest resolution,
\* and a job runs for the second
C17_Witness ==
    /\ bpc = "in_job" /\ idx = 2 /\ vinfos = <<1, 2>>
    /\ ~is_video_corrupt(registry0, 1)
    /\ is_video_corrupt(registry, 1)
    /\ Len(cfg.resolutions) = 3

\* C18: when a job succeeds for a video that is in the registry (the video
\* was requested by id, or include_corrupt is set) the batch removes it
\* from the registry and leaves the other entries; after the success
\* is_video_corrupt(video) is false.
C18_SuccessClearsCorrupt ==
    (handled # None /\ The(handled).ret = RetSuccess) =>
        LET h == The(handled) IN
        /\ ~is_video_corrupt(registry, h.video)
        /\ registry = clear_video_corrupt(h.registry, h.video)
        /\ \A v \in Videos \ {h.video} :
              is_video_corrupt(registry, v) <=> is_video_corrupt(h.registry, v)
        /\ is_video_corrupt(h.registry, h.video) => (cfg.include_corrupt \/ cfg.video # None)

C18_Witness ==
    /\ handled # None /\ The(handled).ret = RetSuccess
    /\ The(handled).registry = <<1, 2>>
    /\ The(handled).video = 1
    /\ registry = <<2>>
    /\ cfg.include_corrupt

\* C19: wherever SIGTERM reaches the running batch (before the first
\* status write, between jobs, during a validation or an encode), the
\* status record is absent once the process has exited on the signal; a
\* status record only ever exists while data_path is set, which is what
\* the handler needs to clear it.
C19_CancelClearsStatus ==
    /\ bpc = "cancelled" => (status = None /\ cancelled_at # None)
    /\ cancelled_at # None => bpc = "cancelled"
    /\ status # None => (data_path # None /\ The(status).is_running /\ Alive)

\* the signal came while an encoder candidate was being run
C19_Witness ==
    /\ bpc = "cancelled"
    /\ cancelled_at = Some(<<"in_job", "candidates">>)
    /\ status = None

(***************************************************************************)
(* Properties of the batch that no signal interrupts (UncancelledSpec).    *)
(***************************************************************************)
\* no element occurs twice in the sequence
NoDuplicates(list) == \A i, j \in 1..Len(list) : list[i] = list[j] => i = j

\* the loop has come to the first idx videos of the work list, once each
\* and in the order of the query
VisitedInOrder ==
    /\ idx <= Len(vinfos)
    /\ visited = SubSeq(vinfos, 1, idx)
    /\ NoDuplicates(visited)
    /\ \A i, j \in 1..Len(vinfos) : i < j => vinfos[i] < vinfos[j]

\* C20: whatever the jobs return (success, corruption, encoder failure) and
\* whatever is skipped, a batch that is not cancelled visits every video of
\* its work list exactly once in query order, terminates, and has no
\* status record when it has terminated.
C20_BatchRunsToCompletion ==
    /\ [](VisitedInOrder)
    /\ []((bpc = "done" /\ cfg.enable_transcoding) => (visited = vinfos /\ status = None))
    /\ [](bpc = "done" => (status = None /\ ~Running))
    /\ <>[](bpc = "done")

\* a finished batch whose first video was found corrupt and whose second
\* video had a job that failed on every encoder
C20_Witness ==
    /\ bpc = "done"
    /\ visited = <<1, 2>>
    /\ status = None
    /\ is_video_corrupt(registry, 1) /\ ~is_video_corrupt(registry0, 1)
    /\ ~is_video_corrupt(registry, 2)

(***************************************************************************)
(* Properties of the persisted state (checked under StoreSpec).            *)
(***************************************************************************)
\* the two cases of a bad file the readers are specified for
MissingOrMalformed(file) == file.kind \in {"missing", "malformed"}

ProbeNegative == Running /\ job.nvenc = Some(FALSE)

IsNvenc(encoder) == encoder \in NvencEncoders

\* C22: a job that requested the GPU and whose NVENC availability probe was
\* negative (also after the library-path patch and re-check) keeps use_gpu:
\* the candidates it invokes are the GPU-enabled list in order, every NVENC
\* encoder of that list before any CPU encoder, and a candidate that exits 0
\* is stored in the cache entry of mode 'gpu'.
C22_NegativeProbeKeepsGpu ==
    ProbeNegative =>
        LET gpu_list == get_encoder_candidates(TRUE, job.encoder_preference) IN
        /\ job.use_gpu
        /\ Len(CandInvoked) <= Len(gpu_list)
        /\ \A i \in 1..Len(CandInvoked) : CandInvoked[i].encoder = gpu_list[i]
        /\ \A i, j \in 1..Len(CandInvoked) :
              (IsNvenc(CandInvoked[j].encoder) /\ ~IsNvenc(CandInvoked[i].encoder)) => j < i
        /\ (job.ret = RetSuccess /\ CandInvoked # <<>>) =>
              working_encoder_cache["gpu"] = Some(CandInvoked[Len(CandInvoked)].encoder)
        /\ (job.pc = "returned" /\ job.ret # RetSuccess) => Len(CandInvoked) = Len(gpu_list)

\* after a negative probe both NVENC encoders failed and a CPU encoder of
\* the GPU-enabled list succeeded and was cached under 'gpu'
C22_Witness ==
    /\ ProbeNegative
    /\ job.ret = RetSuccess
    /\ Len(CandInvoked) = 3
    /\ IsNvenc(CandInvoked[1].encoder)
    /\ ~IsNvenc(CandInvoked[3].encoder)
    /\ working_encoder_cache["gpu"] = Some(CandInvoked[3].encoder)

(***************************************************************************)
(* Properties of failed encoder attempts (checked under ExecSpec).         *)
(***************************************************************************)
LastInvocation == job.invoked[Len(job.invoked)]
\* the last encoder attempt of the running job failed and the job goes on
AfterFailedAttempt ==
    /\ Running
    /\ job.invoked # <<>>
    /\ ~LastInvocation.ok
    /\ job.pc \in {"detect", "candidates"}

\* C23: after every failed encoder attempt of a job, the cached one
\* included, no partial output is left at out_path when the next attempt
\* starts and the job has not returned; after a failed cached attempt the
\* cache entry of the mode is empty.
C23_FailedAttemptCleansUp ==
    AfterFailedAttempt =>
        /\ job.out_file # "partial"
        /\ job.ret = None
        /\ LastInvocation.phase = "cached" => working_encoder_cache[mode] = None

(***************************************************************************)
(* Properties of the progress record (checked under Spec).                 *)
(***************************************************************************)
\* the batch is between its first status write and its end
InBatchLoop == bpc \in {"loop", "res", "in_job"}

\* C24: from the first status write of a batch until it completes or is
\* cancelled, the status record has is_running = true, total = the length of
\* the filtered work list, 0 <= current <= total, and current = the 1-based
\* index of the video being processed (with that video as current_video);
\* current never decreases and is rewritten at every index advance, also
\* for a video skipped because its source file is missing.
C24_StatusTracksIndex ==
    /\ [](InBatchLoop =>
            /\ status # None
            /\ The(status).is_running
            /\ The(status).total = Len(vinfos)
            /\ The(status).current = idx
            /\ 0 <= The(status).current
            /\ The(status).current <= The(status).total
            /\ idx = Len(visited)
            /\ idx >= 1 => The(status).current_video = Some(vinfos[idx]))
    /\ [][(status # None /\ status' # None) =>
            /\ The(status').current >= The(status).current
            /\ idx' # idx => The(status').current = idx']_vars

\* two videos in a row were skipped for a missing source file, and the
\* record reports the second
C24_Witness ==
    /\ bpc = "loop"
    /\ idx = 2
    /\ res_i = 0
    /\ status # None
    /\ The(status).current = 2

(***************************************************************************)
(* Properties of the encoder cache (checked under ExecSpec).               *)
(***************************************************************************)
OtherMode(m) == IF m = "gpu" THEN "cpu" ELSE "gpu"

\* C25: the encoder cache after a job of mode m: after a success cache[m]
\* is the encoder whose invocation exited 0 in that job; after a return of
\* 'encoders' cache[m] is empty; after a return of 'corruption' cache[m] is
\* as it was when the job began; and the entry of the other mode is never
\* changed by the job.
C25_CachePostcondition ==
    Running =>
        /\ working_encoder_cache[OtherMode(mode)] = job.cache0[OtherMode(mode)]
        /\ job.pc = "returned" =>
              /\ job.ret = RetSuccess =>
                    /\ job.invoked # <<>>
                    /\ LastInvocation.ok
                    /\ working_encoder_cache[mode] = Some(LastInvocation.encoder)
              /\ job.ret = RetEncoders => working_encoder_cache[mode] = None
              /\ job.ret = RetCorruption => working_encoder_cache[mode] = job.cache0[mode]

\* a job that began with both entries filled returned 'encoders': its own
\* entry is empty, the other one is still there
C25_Witness ==
    /\ Running
    /\ job.pc = "returned"
    /\ job.ret = RetEncoders
    /\ job.cache0[mode] # None
    /\ working_encoder_cache[mode] = None
    /\ working_encoder_cache[OtherMode(mode)] # None

(***************************************************************************)
(* Properties of the cache across encoder preferences (ExecSpec).          *)
(***************************************************************************)
\* C26: whenever a job returns success, the encoder whose invocation
\* produced the output is a member of the candidate list of that job's own
\* (use_gpu, encoder_preference); a job with preference 'h264' never
\* produces its output with an AV1 encoder.
C26_OutputEncoderIsCandidate ==
    (Running /\ job.pc = "returned" /\ job.ret = RetSuccess) =>
        LastInvocation.encoder \in Range(get_encoder_candidates(job.use_gpu, job.encoder_preference))

(***************************************************************************)
(* Properties of the batch's timeout (checked under Spec).                 *)
(***************************************************************************)
\* a job of the batch has fixed its timeout and could not determine the
\* duration of its source
DurationUnknownInBatch ==
    /\ bpc = "in_job"
    /\ job.timeout_seconds # None
    /\ job.duration = None

\* C27: the base timeout configured for the application (TRANSCODE_TIMEOUT,
\* read by the batch as base_timeout) is the timeout the encoder invocations
\* of a batch job run under when the duration of the source cannot be
\* determined.
C27_ConfiguredBaseTimeoutUsed ==
    DurationUnknownInBatch => job.timeout_seconds = Some(cfg.base_timeout)

(***************************************************************************)
(* Properties of the bulk_import lock (checked under LockSpec).            *)
(***************************************************************************)
\* the importers that passed the lock check and run the import steps
Importing == {p \in Importers : importers[p].pc = "steps"}

\* C28: the lock gives mutual exclusion: for every interleaving of two
\* bulk_import processes started concurrently, at most one of them gets
\* past the lock check and runs the scan/sync/poster/transcode steps; the
\* other aborts.
C28_LockMutualExclusion == Cardinality(Importing) <= 1

\* C29: every bulk_import that created fireshare.lock removes it before its
\* process ends, on every exit path (SIGTERM during the transcode step and
\* a step that raises included): when no bulk_import is running the lock
\* does not exist, so a later bulk_import is not blocked by a dead run.
C29_NoLockLeftBehind ==
    (\A p \in Importers : ~AliveImporter(p)) => ~lockfile

(***************************************************************************)
(* Properties of concurrent registry updates (checked under RaceSpec).     *)
(***************************************************************************)
BothDone == \A w \in Writers : writers[w].pc = "done"

\* C30: registry updates are not lost under interleaving: when
\* mark_video_corrupt(A) of the batch interleaves with mark_video_corrupt(B)
\* or the clearing of B in another process, the final registry reflects
\* both operations (A is in it; B is in it after a mark and not in it after
\* a clear); and in every reachable state the registry holds no duplicate.
C30_NoLostUpdate ==
    /\ (BothDone /\ writers["batch"].video_id # writers["other"].video_id) =>
          /\ registry_file.kind = "json"
          /\ writers["batch"].video_id \in Range(registry_file.value)
          /\ writers["other"].op = "mark_video_corrupt" =>
                writers["other"].video_id \in Range(registry_file.value)
          /\ writers["other"].op = "clear_corrupt_status" =>
                writers["other"].video_id \notin Range(registry_file.value)
    /\ registry_file.kind = "json" => NoDuplicates(registry_file.value)

=============================================================================
